---- MODULE Spec2Model ----
(***************************************************************************)
(* A model of the LAP timesheet utilities (src/timesheets.py): the cell    *)
(* parsers, the batch assembler concat_pay_periods, load_timesheet with    *)
(* its pickle cache, parse_timesheet and the rule engine timesheet_errors. *)
(*                                                                         *)
(* Conventions.  A Python str is a sequence of one-character strings.  A   *)
(* nullable value (pd.NA / NaN / NaT or a value) is a sequence of length 0 *)
(* or 1: NA == << >>, Val(x) == <<x>>.  A Series / DataFrame is a sequence *)
(* of cells / rows; the pandas index i is position i + 1 of the sequence.  *)
(***************************************************************************)
EXTENDS Integers, Sequences, FiniteSets, TLC

VARIABLES
    cell,        \* one raw cell handed to a cell parser
    cellOut,     \* the parser applied last and what it returned
    POSITIONS,   \* the role table read from positions.json at import
    path,        \* the stem of the timesheet's file name
    pathIsStr,   \* whether load_timesheet is given a str (not a pathlib.Path)
    naYear,      \* what the installed pandas does with an all-NA year column
    workbook,    \* the Excel file's content: its sheets, in order
    clock,       \* the file system's clock, in its timestamp granularity
    xlsx_mtime,  \* modification time of the Excel file
    pkl,         \* the pickled timesheet beside it, NA when there is none
    pkl_mtime,   \* modification time of the pickle
    ts,          \* what the last load_timesheet call did and returned
    parsed,      \* parse_timesheet(ts), NA until it has run
    errors       \* timesheet_errors(ts, parsed), NA until it has run

parseVars == <<cell, cellOut>>

fileVars == <<workbook, clock, xlsx_mtime, pkl, pkl_mtime>>

configVars == <<POSITIONS, path, pathIsStr, naYear>>

vars == <<cell, cellOut, POSITIONS, path, pathIsStr, naYear, workbook, clock,
          xlsx_mtime, pkl, pkl_mtime, ts, parsed, errors>>

----------------------------------------------------------------------------
(* Nullable values *)

NA == << >>

Val(x) == <<x>>

IsNA(c) == c = << >>

NotNA(c) == c # << >>

Get(c) == c[1]

----------------------------------------------------------------------------
(* Characters and Python str methods *)

DigitSeq == <<"0", "1", "2", "3", "4", "5", "6", "7", "8", "9">>

Digits == {DigitSeq[i] : i \in 1..10}

DigitVal(c) == (CHOOSE i \in 1..10 : DigitSeq[i] = c) - 1

UpperSeq == <<"A", "B", "C", "D", "E", "F", "G", "H", "I", "J", "K", "L", "M",
              "N", "O", "P", "Q", "R", "S", "T", "U", "V", "W", "X", "Y", "Z">>

LowerSeq == <<"a", "b", "c", "d", "e", "f", "g", "h", "i", "j", "k", "l", "m",
              "n", "o", "p", "q", "r", "s", "t", "u", "v", "w", "x", "y", "z">>

UpperChars == {UpperSeq[i] : i \in 1..26}

LowerChars == {LowerSeq[i] : i \in 1..26}

Whitespace == {" ", "\t"}

\* \w of the re module: letters, digits and the underscore.
WordChars == UpperChars \cup LowerChars \cup Digits \cup {"_"}

LowerChar(c) == IF c \in UpperChars
                THEN LowerSeq[CHOOSE i \in 1..26 : UpperSeq[i] = c]
                ELSE c

UpperChar(c) == IF c \in LowerChars
                THEN UpperSeq[CHOOSE i \in 1..26 : LowerSeq[i] = c]
                ELSE c

\* str.lower()
str_lower(s) == [i \in 1..Len(s) |-> LowerChar(s[i])]

\* s[0:n]
str_prefix(s, n) == SubSeq(s, 1, IF Len(s) < n THEN Len(s) ELSE n)

\* str.strip()
RECURSIVE lstrip(_)
lstrip(s) == IF s # << >> /\ Head(s) \in Whitespace THEN lstrip(Tail(s)) ELSE s

RECURSIVE rstrip(_)
rstrip(s) == IF s # << >> /\ s[Len(s)] \in Whitespace
             THEN rstrip(SubSeq(s, 1, Len(s) - 1))
             ELSE s

str_strip(s) == rstrip(lstrip(s))

\* The value of a non-empty string of decimal digits.
RECURSIVE DigitsToInt(_)
DigitsToInt(s) == IF s = << >> THEN 0
                  ELSE 10 * DigitsToInt(SubSeq(s, 1, Len(s) - 1)) + DigitVal(s[Len(s)])

AllDigits(s) == s # << >> /\ \A i \in 1..Len(s) : s[i] \in Digits

\* Two-digit zero-padded rendering, as strftime's %H and %M.
Fmt2(n) == <<DigitSeq[(n \div 10) + 1], DigitSeq[(n % 10) + 1]>>

----------------------------------------------------------------------------
(* Module constants *)

\* 0-indexed row of the sheet which contains the column names.
EXCEL_HEADER == 1

\* The internal (short) column names, in the order of COLUMN_SHORT_NAMES.
COLUMNS == <<"position", "last", "first", "course", "month", "day",
             "start", "end", "duration", "notes">>

COLUMN_LONG_NAMES == [position |-> "Position", last |-> "Last Name",
                      first |-> "First Name", course |-> "Class Tutored",
                      month |-> "Month", day |-> "Day", start |-> "Start Time",
                      end |-> "End Time", duration |-> "Duration",
                      notes |-> "Notes"]

\* tuple(map(str.lower, calendar.month_abbr)): element 0 is the empty string.
MONTH_ABBRS == << << >>,
                 <<"j", "a", "n">>, <<"f", "e", "b">>, <<"m", "a", "r">>,
                 <<"a", "p", "r">>, <<"m", "a", "y">>, <<"j", "u", "n">>,
                 <<"j", "u", "l">>, <<"a", "u", "g">>, <<"s", "e", "p">>,
                 <<"o", "c", "t">>, <<"n", "o", "v">>, <<"d", "e", "c">> >>

----------------------------------------------------------------------------
(* Cell parsers.  Each takes one cell of the series (NA or a str). *)

\* MONTH_ABBRS.index wrapped by replace_errors(..., ValueError): the 0-based
\* position of the first equal element, NA when there is none.
MonthAbbrsIndex(s) ==
    IF \E i \in 1..Len(MONTH_ABBRS) : MONTH_ABBRS[i] = s
    THEN Val((CHOOSE i \in 1..Len(MONTH_ABBRS) :
                 /\ MONTH_ABBRS[i] = s
                 /\ \A j \in 1..(i - 1) : MONTH_ABBRS[j] # s) - 1)
    ELSE NA

\* A str_to_month that compares the prefix without lowercasing it.
str_to_month_no_lower(c) ==
    IF IsNA(c) THEN NA ELSE MonthAbbrsIndex(str_prefix(Get(c), 3))

str_to_month(c) ==
    IF IsNA(c) THEN NA
    ELSE MonthAbbrsIndex(str_lower(str_prefix(Get(c), 3)))

\* TIME_REGEX applied with re.search (Series.str.extract): the leftmost match.
\* Everything after the hour is optional, so the match starts at the first
\* digit and every quantifier keeps its greedy choice.
FirstDigit(s) == IF \E i \in 1..Len(s) : s[i] \in Digits
                 THEN CHOOSE i \in 1..Len(s) :
                        /\ s[i] \in Digits
                        /\ \A j \in 1..(i - 1) : s[j] \notin Digits
                 ELSE 0

\* (?:[^\d](\d{2}))? at position q: a non-digit and two digits.
SepTwoDigits(s, q) == /\ q + 2 <= Len(s)
                      /\ s[q] \notin Digits
                      /\ s[q + 1] \in Digits
                      /\ s[q + 2] \in Digits

\* [^\d\w]* from position q: the first position it does not consume.
RECURSIVE SkipSeparators(_, _)
SkipSeparators(s, q) == IF q <= Len(s) /\ s[q] \notin WordChars
                        THEN SkipSeparators(s, q + 1)
                        ELSE q

TIME_REGEX(s) ==
    LET p == FirstDigit(s) IN
    IF p = 0
    THEN [matched |-> FALSE, hour |-> NA, minute |-> NA, second |-> NA, ampm |-> NA]
    ELSE LET q1 == IF p + 1 <= Len(s) /\ s[p + 1] \in Digits THEN p + 2 ELSE p + 1
             hasMin == SepTwoDigits(s, q1)
             q2 == IF hasMin THEN q1 + 3 ELSE q1
             hasSec == SepTwoDigits(s, q2)
             q3 == IF hasSec THEN q2 + 3 ELSE q2
             q4 == SkipSeparators(s, q3)
             hasAmPm == q4 <= Len(s) /\ s[q4] \in {"A", "a", "P", "p"}
         IN [matched |-> TRUE,
             hour |-> Val(SubSeq(s, p, q1 - 1)),
             minute |-> IF hasMin THEN Val(SubSeq(s, q1 + 1, q1 + 2)) ELSE NA,
             second |-> IF hasSec THEN Val(SubSeq(s, q2 + 1, q2 + 2)) ELSE NA,
             ampm |-> IF hasAmPm THEN Val(<<s[q4]>>) ELSE NA]

\* Series + str: NA when either operand is NA.
StrAdd(a, b) == IF IsNA(a) \/ IsNA(b) THEN NA ELSE Val(Get(a) \o Get(b))

\* fillna("")
FillNaEmpty(a) == IF IsNA(a) THEN Val(<< >>) ELSE a

\* pd.to_datetime(..., errors="coerce") on the strings normalize_time_string
\* builds, "H:MM" or "HH:MM" with an optional "am"/"pm" in either case (each
\* element parsed on its own by dateutil): [hour, minute], or NA (NaT) when
\* the string is NA or names no valid time.
to_datetime_time(c) ==
    IF IsNA(c) THEN NA
    ELSE LET s == Get(c)
             colon == IF \E i \in 1..Len(s) : s[i] = ":"
                      THEN CHOOSE i \in 1..Len(s) : s[i] = ":" /\ \A j \in 1..(i - 1) : s[j] # ":"
                      ELSE 0
             hs == SubSeq(s, 1, colon - 1)
             ms == SubSeq(s, colon + 1, colon + 2)
             rest == str_lower(SubSeq(s, colon + 3, Len(s)))
         IN IF colon = 0 \/ ~AllDigits(hs) \/ Len(ms) # 2 \/ ~AllDigits(ms)
               \/ rest \notin {<< >>, <<"a", "m">>, <<"p", "m">>}
            THEN NA
            ELSE LET h == DigitsToInt(hs)
                     m == DigitsToInt(ms)
                     h24 == IF rest = <<"p", "m">> /\ h < 12 THEN h + 12
                            ELSE IF rest = <<"a", "m">> /\ h = 12 THEN 0
                            ELSE h
                 IN IF (rest # << >> /\ h > 12) \/ h24 > 23 \/ m > 59
                    THEN NA
                    ELSE Val([hour |-> h24, minute |-> m])

\* times.dt.strftime("%H:%M")
strftime_HM(t) == IF IsNA(t) THEN NA
                  ELSE Val(Fmt2(Get(t).hour) \o <<":">> \o Fmt2(Get(t).minute))

normalize_time_string(c) ==
    IF IsNA(c) THEN NA
    ELSE LET matches == TIME_REGEX(Get(c))
             hour == matches.hour
             minute == matches.minute
             ampm == FillNaEmpty(StrAdd(matches.ampm, Val(<<"m">>)))
             times == to_datetime_time(
                          StrAdd(StrAdd(StrAdd(hour, Val(<<":">>)), minute), ampm))
         IN strftime_HM(times)

----------------------------------------------------------------------------
(* Number parsers and calendar dates *)

IsDigit(c) == c \in Digits

\* The digits of a Python integer literal: single underscores may separate them.
IntBody(s) == /\ s # << >>
              /\ s[1] \in Digits
              /\ s[Len(s)] \in Digits
              /\ \A i \in 1..Len(s) : s[i] \in Digits \cup {"_"}
              /\ \A i \in 1..(Len(s) - 1) : ~(s[i] = "_" /\ s[i + 1] = "_")

\* int(s) wrapped by replace_errors(int, (ValueError, TypeError)).
py_int(s) ==
    LET t == str_strip(s)
        signed == t # << >> /\ t[1] \in {"+", "-"}
        body == IF signed THEN Tail(t) ELSE t
    IN IF IntBody(body)
       THEN Val((IF signed /\ t[1] = "-" THEN -1 ELSE 1)
                  * DigitsToInt(SelectSeq(body, IsDigit)))
       ELSE NA

\* str_to_int on one cell: int(pd.NA) raises TypeError, which becomes NA.
str_to_int(c) == IF IsNA(c) THEN NA ELSE py_int(Get(c))

\* A decimal number n / 10^scale without trailing zeros in its fraction.
RECURSIVE Decimal(_, _)
Decimal(n, scale) == IF scale > 0 /\ n % 10 = 0
                     THEN Decimal(n \div 10, scale - 1)
                     ELSE [n |-> n, scale |-> scale]

\* pd.to_numeric(..., errors="coerce") on one cell, for plain decimal notation
\* (optional sign, digits, optional fraction); anything else is NA here.
to_numeric(c) ==
    IF IsNA(c) THEN NA
    ELSE LET t == str_strip(Get(c))
             signed == t # << >> /\ t[1] \in {"+", "-"}
             body == IF signed THEN Tail(t) ELSE t
             dot == IF \E i \in 1..Len(body) : body[i] = "."
                    THEN CHOOSE i \in 1..Len(body) :
                           body[i] = "." /\ \A j \in 1..(i - 1) : body[j] # "."
                    ELSE 0
             ip == IF dot = 0 THEN body ELSE SubSeq(body, 1, dot - 1)
             fp == IF dot = 0 THEN << >> ELSE SubSeq(body, dot + 1, Len(body))
         IN IF /\ ip \o fp # << >>
               /\ \A i \in 1..Len(ip) : ip[i] \in Digits
               /\ \A i \in 1..Len(fp) : fp[i] \in Digits
            THEN Val(Decimal((IF signed /\ t[1] = "-" THEN -1 ELSE 1)
                                * DigitsToInt(ip \o fp), Len(fp)))
            ELSE NA

IsLeap(y) == (y % 4 = 0 /\ y % 100 # 0) \/ y % 400 = 0

DaysInMonth(y, m) == IF m = 2 THEN (IF IsLeap(y) THEN 29 ELSE 28)
                     ELSE IF m \in {4, 6, 9, 11} THEN 30 ELSE 31

\* A calendar date a pandas Timestamp can hold.
ValidDate(y, m, d) == /\ y \in 1678..2261
                      /\ m \in 1..12
                      /\ d \in 1..DaysInMonth(y, m)

\* pd.to_datetime of (year, month, day) columns with errors="coerce", one row.
to_datetime_ymd(y, m, d) ==
    IF IsNA(y) \/ IsNA(m) \/ IsNA(d) THEN NA
    ELSE IF ValidDate(Get(y), Get(m), Get(d))
         THEN Val([year |-> Get(y), month |-> Get(m), day |-> Get(d)])
         ELSE NA

\* drop_empty_strings on one cell.
drop_empty_strings(c) ==
    IF IsNA(c) THEN NA
    ELSE IF str_strip(Get(c)) = << >> THEN NA ELSE Val(str_strip(Get(c)))

RECURSIVE Flatten(_)
Flatten(ss) == IF ss = << >> THEN << >> ELSE Head(ss) \o Flatten(Tail(ss))

\* The elements of a set of integers in increasing order.
RECURSIVE Ascending(_)
Ascending(S) == IF S = {} THEN << >>
                ELSE LET m == CHOOSE x \in S : \A y \in S : x <= y
                     IN <<m>> \o Ascending(S \ {m})

Range(f) == {f[i] : i \in DOMAIN f}

----------------------------------------------------------------------------
(* Configuration read at import *)

\* pay_periods.json: each pay period's name and its last day as [month, day].
PAY_PERIODS == [PP1 |-> [last |-> <<1, 15>>], PP2 |-> [last |-> <<1, 31>>]]

PeriodNames == DOMAIN PAY_PERIODS

\* normalize_position on one cell.
normalize_position(c) ==
    IF IsNA(c) THEN NA
    ELSE IF \E k \in 1..Len(POSITIONS) : POSITIONS[k].name = str_lower(Get(c))
         THEN Val(str_lower(Get(c)))
         ELSE NA

----------------------------------------------------------------------------
(* concat_pay_periods *)

\* A sheet row with every data column empty.
AllNA(r) == \A k \in 1..Len(COLUMNS) : IsNA(r[COLUMNS[k]])

Stamp(r, row, period) ==
    [position |-> r.position, last |-> r.last, first |-> r.first,
     course |-> r.course, month |-> r.month, day |-> r.day, start |-> r.start,
     end |-> r.end, duration |-> r.duration, notes |-> r.notes,
     row |-> row, period |-> period]

\* A variant of period_sheet that numbers the rows left after dropna from 0
\* again.
period_sheet_reindexed(sheet) ==
    LET kept == SelectSeq([i \in 1..Len(sheet.rows) |-> i],
                          LAMBDA i : ~AllNA(sheet.rows[i]))
    IN [k \in 1..Len(kept) |->
           Stamp(sheet.rows[kept[k]], (k - 1) + EXCEL_HEADER + 2, sheet.name)]

\* One period sheet: workbook.parse gives the rows under the header indexed
\* 0, 1, ...; dropna(how="all") keeps the index of the rows it leaves.
period_sheet(sheet) ==
    LET kept == SelectSeq([i \in 1..Len(sheet.rows) |-> i],
                          LAMBDA i : ~AllNA(sheet.rows[i]))
    IN [k \in 1..Len(kept) |->
           Stamp(sheet.rows[kept[k]], (kept[k] - 1) + EXCEL_HEADER + 2, sheet.name)]

\* pd.concat raises ValueError when there is nothing to concatenate.
concat_pay_periods(wb) ==
    LET periods == SelectSeq(wb, LAMBDA sheet : sheet.name \in PeriodNames)
        period_sheets == [k \in 1..Len(periods) |-> period_sheet(periods[k])]
    IN IF period_sheets = << >>
       THEN [exc |-> Val("ValueError"), table |-> << >>]
       ELSE [exc |-> NA, table |-> Flatten(period_sheets)]

----------------------------------------------------------------------------
(* load_timesheet *)

\* str.split(sep) for a one-character separator.
RECURSIVE str_split(_, _)
str_split(s, sep) ==
    IF \E i \in 1..Len(s) : s[i] = sep
    THEN LET i == CHOOSE i \in 1..Len(s) : s[i] = sep /\ \A j \in 1..(i - 1) : s[j] # sep
         IN <<SubSeq(s, 1, i - 1)>> \o str_split(SubSeq(s, i + 1, Len(s)), sep)
    ELSE <<s>>

\* s[-n:]
str_suffix(s, n) == SubSeq(s, IF Len(s) < n THEN 1 ELSE Len(s) - n + 1, Len(s))

WithMeta(r, provider, year, period_end) ==
    [position |-> r.position, last |-> r.last, first |-> r.first,
     course |-> r.course, month |-> r.month, day |-> r.day, start |-> r.start,
     end |-> r.end, duration |-> r.duration, notes |-> r.notes,
     row |-> r.row, period |-> r.period,
     provider |-> provider, year |-> year, period_end |-> period_end]

\* What pd.to_datetime(period_end) does when the year column is all NA: the
\* astype("int64") on the nullable column raises ValueError, or the dates are
\* NaT, depending on the pandas version.
NAYearOutcomes == {"ValueError", "NaT"}

\* The part of load_timesheet after the cache test: parse the workbook and add
\* the provider, year and period_end columns.  stem is the file name's stem,
\* isStr tells whether the path argument is a str, naYearOutcome the library's
\* behaviour for an all-NA year.
load_fresh(wb, stem, isStr, naYearOutcome) ==
    LET timesheet == concat_pay_periods(wb)
        parts == str_split(stem, "_")
        raise(e) == [exc |-> Val(e), table |-> << >>]
    IN IF NotNA(timesheet.exc) THEN timesheet
       ELSE IF Len(parts) # 5
       THEN \* The handler formats path.stem, which a str does not have; with a
            \* Path it sets only "provider", and timesheet["year"] is missing.
            IF isStr THEN raise("AttributeError") ELSE raise("KeyError")
       ELSE LET provider == Val(parts[4] \o <<" ">> \o parts[3])
                year == py_int(str_suffix(parts[1], 4))
                end_of(p) == to_datetime_ymd(year, Val(PAY_PERIODS[p].last[1]),
                                             Val(PAY_PERIODS[p].last[2]))
            IN IF IsNA(year) /\ naYearOutcome = "ValueError" THEN raise("ValueError")
               ELSE IF NotNA(year)
                       /\ \E i \in 1..Len(timesheet.table) :
                             IsNA(end_of(timesheet.table[i].period))
               THEN raise("ValueError")
               ELSE [exc |-> NA,
                     table |-> [i \in 1..Len(timesheet.table) |->
                                  WithMeta(timesheet.table[i], provider, year,
                                           end_of(timesheet.table[i].period))]]

\* Whether load_timesheet returns the pickled timesheet.
UsePickle(load_pickle) == load_pickle /\ NotNA(pkl) /\ pkl_mtime >= xlsx_mtime

NotLoaded == [called |-> FALSE, exc |-> NA, table |-> << >>, source |-> << >>,
              defaults |-> TRUE]

\* load_timesheet(path, load_pickle, save_pickle).  Beside the call's outcome ts
\* records what the Excel file held when the call was made (source) and whether
\* every call so far left load_pickle and save_pickle enabled (defaults).
LoadTimesheet ==
    \E load_pickle \in BOOLEAN, save_pickle \in BOOLEAN :
       LET fresh == load_fresh(workbook, path, pathIsStr, naYear)
           defaults == ts.defaults /\ load_pickle /\ save_pickle
       IN /\ IF UsePickle(load_pickle)
             THEN /\ ts' = [called |-> TRUE, exc |-> NA, table |-> Get(pkl),
                            source |-> workbook, defaults |-> defaults]
                  /\ UNCHANGED <<pkl, pkl_mtime>>
             ELSE /\ ts' = [called |-> TRUE, exc |-> fresh.exc, table |-> fresh.table,
                            source |-> workbook, defaults |-> defaults]
                  /\ IF save_pickle /\ IsNA(fresh.exc)
                     THEN pkl' = Val(fresh.table) /\ pkl_mtime' = clock
                     ELSE UNCHANGED <<pkl, pkl_mtime>>
          /\ parsed' = NA
          /\ errors' = NA
          /\ UNCHANGED <<workbook, clock, xlsx_mtime, configVars, parseVars>>

----------------------------------------------------------------------------
(* parse_timesheet *)

parse_row(r) ==
    LET month == str_to_month(r.month)
        day == str_to_int(r.day)
    IN [position |-> normalize_position(r.position),
        last |-> drop_empty_strings(r.last),
        first |-> drop_empty_strings(r.first),
        course |-> drop_empty_strings(r.course),
        month |-> month,
        day |-> day,
        start |-> normalize_time_string(r.start),
        end |-> normalize_time_string(r.end),
        duration |-> to_numeric(r.duration),
        notes |-> drop_empty_strings(r.notes),
        row |-> r.row, period |-> r.period, provider |-> r.provider,
        year |-> r.year, period_end |-> r.period_end,
        date |-> to_datetime_ymd(r.year, month, day)]

parse_timesheet(table) == [i \in 1..Len(table) |-> parse_row(table[i])]

----------------------------------------------------------------------------
(* Error detection.  A mask is the set of positions of the rows it selects;  *)
(* a message template is its text and the columns it substitutes.            *)

TSError(mask, text, fields, level, rule) ==
    [mask |-> mask, message |-> [text |-> text, fields |-> fields],
     level |-> level, rule |-> rule]

\* Keeps the errors whose mask selects a row: "if mask.sum(): errors.append".
NonEmpty(errs) == SelectSeq(errs, LAMBDA e : e.mask # {})

position_errors(table, prs) ==
    LET missing_position == {i \in 1..Len(table) : IsNA(table[i].position)}
        invalid_position == {i \in 1..Len(table) :
                               i \notin missing_position /\ IsNA(prs[i].position)}
    IN NonEmpty(<<TSError(missing_position, "Missing entry: Position", << >>,
                          "CRITICAL", "position_errors"),
                  TSError(invalid_position, "Invalid position: {position}",
                          <<"position">>, "CRITICAL", "position_errors")>>)

\* A required_entry_errors that forgets the position mask.
required_entry_errors_any_position(table, prs) ==
    Flatten([p \in 1..Len(POSITIONS) |->
      NonEmpty([c \in 1..Len(POSITIONS[p].required) |->
        LET column == POSITIONS[p].required[c]
        IN TSError({i \in 1..Len(table) : IsNA(table[i][column])},
                   "Missing required entry: " \o column, << >>,
                   "CRITICAL", "required_entry_errors")])])

required_entry_errors(table, prs) ==
    Flatten([p \in 1..Len(POSITIONS) |->
      NonEmpty([c \in 1..Len(POSITIONS[p].required) |->
        LET column == POSITIONS[p].required[c]
            position_mask == {i \in 1..Len(table) :
                                prs[i].position = Val(POSITIONS[p].name)}
            has_entry == {i \in 1..Len(table) : NotNA(table[i][column])}
            missing == position_mask \ has_entry
        IN TSError(missing, "Missing required entry: " \o column, << >>,
                   "CRITICAL", "required_entry_errors")])])

\* A forbidden_entry_errors that forgets the position mask.
forbidden_entry_errors_any_position(table, prs) ==
    Flatten([p \in 1..Len(POSITIONS) |->
      NonEmpty([c \in 1..Len(POSITIONS[p].forbidden) |->
        LET column == POSITIONS[p].forbidden[c]
        IN TSError({i \in 1..Len(table) : NotNA(table[i][column])},
                   COLUMN_LONG_NAMES[column] \o " should be blank instead of: {"
                      \o column \o "}",
                   <<column>>, "WARNING", "forbidden_entry_errors")])])

forbidden_entry_errors(table, prs) ==
    Flatten([p \in 1..Len(POSITIONS) |->
      NonEmpty([c \in 1..Len(POSITIONS[p].forbidden) |->
        LET column == POSITIONS[p].forbidden[c]
            position_mask == {i \in 1..Len(table) :
                                prs[i].position = Val(POSITIONS[p].name)}
            has_entry == {i \in 1..Len(table) : NotNA(table[i][column])}
            forbidden_entry == position_mask \cap has_entry
        IN TSError(forbidden_entry,
                   COLUMN_LONG_NAMES[column] \o " should be blank instead of: {"
                      \o column \o "}",
                   <<column>>, "WARNING", "forbidden_entry_errors")])])

invalid_entry_errors(table, prs) ==
    NonEmpty([c \in 1..Len(COLUMNS) |->
      LET column == COLUMNS[c]
          invalid_entry == {i \in 1..Len(table) :
                              NotNA(table[i][column]) /\ IsNA(prs[i][column])}
      IN TSError(invalid_entry,
                 COLUMN_LONG_NAMES[column] \o " entry not understood: {"
                    \o column \o "}",
                 <<column>>, "CRITICAL", "invalid_entry_errors")])

date_errors(table, prs) ==
    LET has_date_components == {i \in 1..Len(table) :
            NotNA(prs[i].year) /\ NotNA(prs[i].month) /\ NotNA(prs[i].day)}
        invalid_date == {i \in 1..Len(table) : IsNA(prs[i].date)}
        invalid_day == has_date_components \cap invalid_date
    IN NonEmpty(<<TSError(invalid_day, "Invalid day for {month} {year}: {day}",
                          <<"month", "year", "day">>, "CRITICAL", "date_errors")>>)

\* duration_errors returns the mask of the rows whose start and end times both
\* parsed, not a list of TSErrors, and is not among the error functions.
duration_errors(table, prs) ==
    {i \in 1..Len(table) : NotNA(prs[i].start) /\ NotNA(prs[i].end)}

\* error.message.format(**row)
Render(message, row) ==
    [text |-> message.text,
     args |-> [k \in 1..Len(message.fields) |-> row[message.fields[k]]]]

\* The names of the error functions, in the order of the list error_functions.
error_functions == <<"position_errors", "required_entry_errors",
                     "forbidden_entry_errors", "invalid_entry_errors", "date_errors">>

\* The list the loop of timesheet_errors goes through: the error functions'
\* lists, chained in the order of error_functions.
error_list(table, prs) ==
    position_errors(table, prs) \o required_entry_errors(table, prs)
      \o forbidden_entry_errors(table, prs) \o invalid_entry_errors(table, prs)
      \o date_errors(table, prs)

\* The error_df of one TSError: a finding for each row of the mask, in the
\* table's order, its "row" being the table's index.  error is the TSError's
\* place in the chained list and rule the function that made it (both kept
\* for stating the order of the result, not columns of the DataFrame).
error_df(table, errs, e) ==
    LET rows == Ascending(errs[e].mask)
    IN [k \in 1..Len(rows) |->
          [message |-> Render(errs[e].message, table[rows[k]]),
           level |-> errs[e].level,
           row |-> rows[k] - 1,
           error |-> e,
           rule |-> errs[e].rule]]

\* Insertion of f into a sequence sorted by row, after the findings of the
\* same row.
RECURSIVE InsertByRow(_, _)
InsertByRow(fs, f) ==
    IF fs = << >> THEN <<f>>
    ELSE IF f.row < Head(fs).row THEN <<f>> \o fs
    ELSE <<Head(fs)>> \o InsertByRow(Tail(fs), f)

RECURSIVE SortByRow(_)
SortByRow(fs) == IF fs = << >> THEN << >>
                 ELSE InsertByRow(SortByRow(SubSeq(fs, 1, Len(fs) - 1)), fs[Len(fs)])

\* A timesheet_errors that orders the findings by row, then by rule.
timesheet_errors_by_row(table, prs) ==
    LET errs == error_list(table, prs)
        error_dfs == [e \in 1..Len(errs) |-> error_df(table, errs, e)]
    IN IF error_dfs = << >>
       THEN [exc |-> Val("ValueError"), findings |-> << >>]
       ELSE [exc |-> NA, findings |-> SortByRow(Flatten(error_dfs))]

\* pd.concat(error_dfs) raises ValueError when error_dfs is empty.
timesheet_errors(table, prs) ==
    LET errs == error_list(table, prs)
        error_dfs == [e \in 1..Len(errs) |-> error_df(table, errs, e)]
    IN IF error_dfs = << >>
       THEN [exc |-> Val("ValueError"), findings |-> << >>]
       ELSE [exc |-> NA, findings |-> Flatten(error_dfs)]

----------------------------------------------------------------------------
(* Bounded cell inputs *)

\* Longest generated string.
MaxLen == 3

RECURSIVE StringsUpTo(_, _)
StringsUpTo(alphabet, n) ==
    IF n = 0 THEN {<< >>}
    ELSE LET shorter == StringsUpTo(alphabet, n - 1)
         IN shorter \cup {Append(s, c) : s \in shorter, c \in alphabet}

TimeAlphabet == {"4", "1", "5", "7", ":", "h", " ", "P", "a", "m"}

MonthAlphabet == {"j", "J", "a", "A", "n", "N", "u", "l", " ", "x"}

\* The time strings of the comment above TIME_REGEX and of the parsing table.
TimeExamples ==
    { <<"4">>, <<"4", ":", "1", "5">>, <<"4", ":", "1", "5", ":">>,
      <<"4", ":", "1", "5", ":", "0", "0", "p", "m">>, <<"4", "h", "1", "5">>,
      <<"4", "P", "M">>, <<"4", "p">>, <<"4", ":", "1", "5", " ", "P", "m">>,
      <<"1", "6", ":", "1", "5">>, <<"1", "6", ":", "1", "5", ":">>,
      <<"3", "5", ":", "7", "4", " ", "P", "M">>,
      <<"1", "2", ":", "3", "0", "a", "m">>, <<"1", "3", ":", "0", "0", "p", "m">>,
      <<"a", "t", " ", "9", ":", "0", "5">> }

\* calendar.month_name, lowercased.
MONTH_NAMES == << <<"j", "a", "n", "u", "a", "r", "y">>,
                  <<"f", "e", "b", "r", "u", "a", "r", "y">>,
                  <<"m", "a", "r", "c", "h">>,
                  <<"a", "p", "r", "i", "l">>,
                  <<"m", "a", "y">>,
                  <<"j", "u", "n", "e">>,
                  <<"j", "u", "l", "y">>,
                  <<"a", "u", "g", "u", "s", "t">>,
                  <<"s", "e", "p", "t", "e", "m", "b", "e", "r">>,
                  <<"o", "c", "t", "o", "b", "e", "r">>,
                  <<"n", "o", "v", "e", "m", "b", "e", "r">>,
                  <<"d", "e", "c", "e", "m", "b", "e", "r">> >>

\* word with the letters at the positions in up uppercased.
WithCase(word, up) ==
    [i \in 1..Len(word) |-> IF i \in up THEN UpperChar(word[i]) ELSE word[i]]

\* Every month abbreviation and full month name, in every letter case.
MonthWords ==
    UNION { {WithCase(w, up) : up \in SUBSET (1..Len(w))} :
            w \in {MONTH_NAMES[k] : k \in 1..12}
                  \cup {MONTH_ABBRS[k + 1] : k \in 1..12} }

CellInputs ==
    {NA} \cup {Val(s) : s \in TimeExamples \cup MonthWords
                             \cup StringsUpTo(TimeAlphabet, MaxLen)
                             \cup StringsUpTo(MonthAlphabet, MaxLen)}

----------------------------------------------------------------------------
(* Bounded inputs: role tables, file names, sheet rows and workbooks *)

sTutor == <<"T", "u", "t", "o", "r">>

sCoordinator == <<"c", "o", "o", "r", "d", "i", "n", "a", "t", "o", "r">>

\* Role tables as positions.json gives them after the module lowercases the
\* keys and shortens the column names: a list of roles, each with the columns
\* it requires and forbids.
PositionConfigs ==
    { << [name |-> <<"t", "u", "t", "o", "r">>, required |-> <<"last", "first", "course">>,
          forbidden |-> << >>],
         [name |-> <<"c", "o", "o", "r", "d", "i", "n", "a", "t", "o", "r">>, required |-> <<"notes">>,
          forbidden |-> <<"last", "first", "course">>] >>,
      << [name |-> <<"t", "u", "t", "o", "r">>, required |-> <<"course", "duration">>,
          forbidden |-> <<"notes">>] >> }

\* File name stems: SemesterYear_PAYROLL_LastName_FirstName_VNumber, one with
\* too few parts, one whose semester does not end in a year.
GoodStem == <<"F", "a", "l", "l", "2", "0", "1", "9", "_", "P", "A", "Y", "R", "O", "L", "L", "_", "D", "o", "e", "_", "A", "l", "_", "V", "0", "1">>

FewPartsStem == <<"F", "a", "l", "l", "2", "0", "1", "9", "_", "P", "A", "Y", "R", "O", "L", "L", "_", "D", "o", "e">>

BadYearStem == <<"F", "a", "l", "l", "2", "0", "x", "x", "_", "P", "A", "Y", "R", "O", "L", "L", "_", "D", "o", "e", "_", "A", "l", "_", "V", "0", "1">>

Stems == {GoodStem, FewPartsStem, BadYearStem}

Row(position, last, first, course, month, day, start, end, duration, notes) ==
    [position |-> position, last |-> last, first |-> first, course |-> course,
     month |-> month, day |-> day, start |-> start, end |-> end,
     duration |-> duration, notes |-> notes]

BlankRow == Row(NA, NA, NA, NA, NA, NA, NA, NA, NA, NA)

\* A tutoring session filled in completely (the notes left empty).
GoodRow == Row(Val(sTutor), Val(<<"D", "o", "e">>), Val(<<"A", "l">>), Val(<<"M", "1">>), Val(<<"J", "a", "n">>),
               Val(<<"7">>), Val(<<"9", ":", "0", "0">>), Val(<<"1", "0", ":", "3", "0">>), Val(<<"1", ".", "5">>), NA)

NoCourseRow == [GoodRow EXCEPT !.course = NA]

NoPositionRow == [GoodRow EXCEPT !.position = NA]

\* Rows of the multi-row workbooks.
DeepRows == {BlankRow, NoCourseRow, NoPositionRow}

\* Rows of the one-row workbooks: the columns the role rules read, varied.
WideRows ==
    { [GoodRow EXCEPT !.position = p, !.last = l, !.course = c, !.month = m,
                      !.notes = n] :
        p \in {NA, Val(sTutor), Val(<<"T", "U", "T", "O", "R">>), Val(sCoordinator), Val(<<"J", "a", "n", "i", "t", "o", "r">>)},
        l \in {NA, Val(<<"D", "o", "e">>)},
        c \in {NA, Val(<<"M", "1">>), Val(<<" ">>)},
        m \in {Val(<<"J", "a", "n">>), Val(<<"F", "o", "o">>)},
        n \in {NA, Val(<<"o", "k">>)} }

\* Most rows under the headers of a workbook, over all its period sheets.
MaxRows == 4

RowSeqs(n) == StringsUpTo(DeepRows, n)

RowSeqsOfLen(n) == {r \in RowSeqs(n) : Len(r) = n}

Sheet(name, rows) == [name |-> name, rows |-> rows]

\* A sheet that is no pay period.
NotesSheet == Sheet("Notes", << >>)

TwoPeriodRows == UNION { {<<r1, r2>> : r1 \in RowSeqsOfLen(n), r2 \in RowSeqs(MaxRows - n)} :
                         n \in 0..MaxRows }

\* Workbooks of two period sheets with up to MaxRows rows between them.
DeepWorkbooks ==
    {<<Sheet("PP1", rr[1]), Sheet("PP2", rr[2])>> : rr \in TwoPeriodRows}
    \cup {<<NotesSheet, Sheet("PP2", rr[1]), Sheet("PP1", rr[2])>> : rr \in TwoPeriodRows}

\* Workbooks of one period sheet with one row, and one without a period sheet.
WideWorkbooks == {<<NotesSheet>>} \cup {<<Sheet("PP2", <<r>>)>> : r \in WideRows}

\* Rows of the workbooks of the rule catalog: the day, the month, the start
\* time and the declared duration varied.
RuleRows ==
    { [GoodRow EXCEPT !.month = m, !.day = d, !.start = s, !.duration = h] :
        m \in {Val(<<"J", "a", "n">>), Val(<<"F", "e", "b">>)},
        d \in {Val(<<"7">>), Val(<<"1", "5">>), Val(<<"1", "6">>), Val(<<"3", "0">>)},
        s \in {Val(<<"9", ":", "0", "0">>), Val(<<"x">>)},
        h \in {NA, Val(<<"1", ".", "5">>), Val(<<"2", ".", "0">>),
               Val(<<"1", ".", "5", "5">>), Val(<<"1", ".", "7">>)} }

\* Workbooks of one period sheet with one row of RuleRows.
RuleWorkbooks == {<<Sheet(p, <<r>>)>> : p \in PeriodNames, r \in RuleRows}

\* The role table of the specification's example: tutors and coordinators.
TutorCoordinator == CHOOSE c \in PositionConfigs : Len(c) = 2

\* The contents the Excel file takes in the cache scenarios.
CacheWorkbooks ==
    { <<Sheet("PP1", <<GoodRow>>)>>,
      <<Sheet("PP1", <<BlankRow, NoCourseRow>>), Sheet("PP2", <<NoPositionRow>>)>>,
      <<NotesSheet>> }

\* Last value of the file system's clock.
MaxClock == 3

----------------------------------------------------------------------------
(* Actions *)

\* The file system's clock advances.
Tick == /\ clock < MaxClock
        /\ clock' = clock + 1
        /\ UNCHANGED <<workbook, xlsx_mtime, pkl, pkl_mtime, ts, parsed, errors,
                       configVars, parseVars>>

\* The Excel file is saved with another content; its modification time is the
\* clock's value.
ModifySource ==
    /\ workbook' \in CacheWorkbooks \ {workbook}
    /\ xlsx_mtime' = clock
    /\ UNCHANGED <<clock, pkl, pkl_mtime, ts, parsed, errors, configVars, parseVars>>

\* parse_timesheet(ts) on the timesheet the last load returned.
ParseTimesheet ==
    /\ ts.called
    /\ IsNA(ts.exc)
    /\ IsNA(parsed)
    /\ parsed' = Val(parse_timesheet(ts.table))
    /\ UNCHANGED <<ts, errors, fileVars, configVars, parseVars>>

\* timesheet_errors(ts, parsed).
TimesheetErrors ==
    /\ NotNA(parsed)
    /\ IsNA(errors)
    /\ errors' = Val(timesheet_errors(ts.table, Get(parsed)))
    /\ UNCHANGED <<ts, parsed, fileVars, configVars, parseVars>>

ApplyStrToMonth ==
    /\ cellOut.fn # "str_to_month"
    /\ cellOut' = [fn |-> "str_to_month", value |-> str_to_month(cell)]
    /\ UNCHANGED <<cell, configVars, fileVars, ts, parsed, errors>>

ApplyNormalizeTimeString ==
    /\ cellOut.fn # "normalize_time_string"
    /\ cellOut' = [fn |-> "normalize_time_string", value |-> normalize_time_string(cell)]
    /\ UNCHANGED <<cell, configVars, fileVars, ts, parsed, errors>>

----------------------------------------------------------------------------
(* Specifications *)

NoOutput == [fn |-> "none", value |-> NA]

InitPipeline == /\ ts = NotLoaded
                /\ parsed = NA
                /\ errors = NA
                /\ pkl = NA
                /\ pkl_mtime = 0
                /\ clock = 1

\* The cell parsers on one cell.
InitParse == /\ cell \in CellInputs
             /\ cellOut = NoOutput
             /\ POSITIONS = TutorCoordinator
             /\ path = GoodStem
             /\ pathIsStr = FALSE
             /\ naYear = "ValueError"
             /\ workbook = <<NotesSheet>>
             /\ xlsx_mtime = 0
             /\ InitPipeline

NextParse == ApplyStrToMonth \/ ApplyNormalizeTimeString

SpecParse == InitParse /\ [][NextParse]_vars

\* One timesheet file loaded, parsed and checked.
InitSheet == /\ cell = NA
             /\ cellOut = NoOutput
             /\ \/ POSITIONS = TutorCoordinator /\ workbook \in DeepWorkbooks
                \/ POSITIONS \in PositionConfigs /\ workbook \in WideWorkbooks
             /\ path = GoodStem
             /\ pathIsStr = FALSE
             /\ naYear = "ValueError"
             /\ xlsx_mtime = 0
             /\ InitPipeline

NextSheet == LoadTimesheet \/ ParseTimesheet \/ TimesheetErrors

SpecSheet == InitSheet /\ [][NextSheet]_vars

\* One timesheet file of the rule-catalog workbooks loaded, parsed and checked.
InitRules == /\ cell = NA
             /\ cellOut = NoOutput
             /\ POSITIONS = TutorCoordinator
             /\ workbook \in RuleWorkbooks
             /\ path = GoodStem
             /\ pathIsStr = FALSE
             /\ naYear = "ValueError"
             /\ xlsx_mtime = 0
             /\ InitPipeline

SpecRules == InitRules /\ [][NextSheet]_vars

\* A timesheet file with a well-formed name that is modified between loads.
InitCache == /\ cell = NA
             /\ cellOut = NoOutput
             /\ POSITIONS = TutorCoordinator
             /\ path = GoodStem
             /\ pathIsStr \in BOOLEAN
             /\ naYear \in NAYearOutcomes
             /\ workbook \in CacheWorkbooks
             /\ xlsx_mtime \in {0, 1}
             /\ InitPipeline

NextCache == LoadTimesheet \/ ModifySource \/ Tick

SpecCache == InitCache /\ [][NextCache]_vars

\* The same under any of the file names.
InitFileName == /\ cell = NA
                /\ cellOut = NoOutput
                /\ POSITIONS = TutorCoordinator
                /\ path \in Stems
                /\ pathIsStr \in BOOLEAN
                /\ naYear \in NAYearOutcomes
                /\ workbook \in CacheWorkbooks
                /\ xlsx_mtime \in {0, 1}
                /\ InitPipeline

SpecFileName == InitFileName /\ [][NextCache]_vars

----------------------------------------------------------------------------
(* Properties of the cell parsers, checked under SpecParse *)

\* s is the word w in some letter case.
SameLetters(s, w) == /\ Len(s) = Len(w)
                     /\ \A i \in 1..Len(w) : s[i] \in {w[i], UpperChar(w[i])}

MonthRan == cellOut.fn = "str_to_month"

TimeRan == cellOut.fn = "normalize_time_string"

\* C7: normalize_time_string gives the results of the parsing table: "4" ->
\* 04:00, "4:15" -> 04:15, "4PM" -> 16:00, "4:15 Pm" -> 16:15, "16:15" ->
\* 16:15 and "35:74 PM" -> absent.  (The statement of the claim; the code
\* returns absent for "4" and "4PM", whose minute group is missing.)
C7_TimeTable ==
    TimeRan =>
      /\ cell = Val(<<"4">>) => cellOut.value = Val(<<"0", "4", ":", "0", "0">>)
      /\ cell = Val(<<"4", ":", "1", "5">>)
            => cellOut.value = Val(<<"0", "4", ":", "1", "5">>)
      /\ cell = Val(<<"4", "P", "M">>)
            => cellOut.value = Val(<<"1", "6", ":", "0", "0">>)
      /\ cell = Val(<<"4", ":", "1", "5", " ", "P", "m">>)
            => cellOut.value = Val(<<"1", "6", ":", "1", "5">>)
      /\ cell = Val(<<"1", "6", ":", "1", "5">>)
            => cellOut.value = Val(<<"1", "6", ":", "1", "5">>)
      /\ cell = Val(<<"3", "5", ":", "7", "4", " ", "P", "M">>)
            => cellOut.value = NA

\* C8: for each month abbreviation and full month name in any letter case
\* str_to_month returns the month's number 1..12, and for an input of three
\* or more characters whose first three characters are in no letter case a
\* month abbreviation it returns absent.
C8_MonthNames ==
    MonthRan /\ NotNA(cell) =>
      /\ \A k \in 1..12 :
            (SameLetters(Get(cell), MONTH_NAMES[k])
               \/ SameLetters(Get(cell), MONTH_ABBRS[k + 1]))
            => cellOut.value = Val(k)
      /\ (/\ Len(Get(cell)) >= 3
          /\ \A k \in 1..12 : ~SameLetters(SubSeq(Get(cell), 1, 3), MONTH_ABBRS[k + 1]))
            => cellOut.value = NA

\* str_to_month has run on "sEpTeMbEr" and returned 9.
C8_Witness_Month ==
    /\ MonthRan
    /\ cell = Val(<<"s", "E", "p", "T", "e", "M", "b", "E", "r">>)
    /\ cellOut.value = Val(9)

\* C9: the month parser's result is absent or a number in 1..12, and the empty
\* string yields absent.  (The statement of the claim; the code returns 0 for
\* the empty string, the index of calendar.month_abbr's empty first element.)
C9_MonthRange ==
    MonthRan =>
      /\ IsNA(cellOut.value) \/ Get(cellOut.value) \in 1..12
      /\ cell = Val(<< >>) => IsNA(cellOut.value)

----------------------------------------------------------------------------
(* Properties of load_timesheet: C1 under SpecCache, C6 under SpecFileName *)

\* The file name does not follow the convention: not five parts, or a
\* semester whose last four characters are no integer.
Malformed(stem) ==
    LET parts == str_split(stem, "_")
    IN Len(parts) # 5 \/ IsNA(py_int(str_suffix(parts[1], 4)))

\* C1: with load_pickle and save_pickle enabled in every call, each
\* load_timesheet call returns what a fresh parse of the Excel file as it is
\* at that moment returns, also when the file was modified after the pickle
\* was written with the same modification time.  (The statement of the claim;
\* the code returns the pickle whenever its time is >= the file's.)
C1_NeverStale ==
    (ts.called /\ ts.defaults) =>
       LET fresh == load_fresh(ts.source, path, pathIsStr, naYear)
       IN ts.exc = fresh.exc /\ ts.table = fresh.table

----------------------------------------------------------------------------
(* Properties of the batch and of the findings, checked under SpecSheet *)

Loaded == ts.called /\ IsNA(ts.exc)

Checked == NotNA(errors) /\ IsNA(Get(errors).exc)

\* The findings timesheet_errors returned (none when it raised).
Findings == IF NotNA(errors) THEN Get(errors).findings ELSE << >>

\* The sheet of the workbook with this name, and its place among the sheets.
SheetAt(name) == CHOOSE k \in 1..Len(workbook) : workbook[k].name = name

SameData(r, t) == \A c \in 1..Len(COLUMNS) : r[COLUMNS[c]] = t[COLUMNS[c]]

\* C2: every finding carries as its row number the spreadsheet row stamped on
\* the entry that triggered it (the entry at the table position the finding
\* was made from), not that position.  (The statement of the claim; the code
\* stores the DataFrame index of the concatenated table.)
C2_FindingRowIsSheetRow ==
    Checked => \A k \in 1..Len(Findings) :
                  Findings[k].row = ts.table[Findings[k].row + 1].row

\* C3: every row of the assembled batch is a non-blank row of its period
\* sheet, stamped with that row's spreadsheet position; the rows keep their
\* order within a period, the periods the order of the sheets, and no
\* non-blank row is lost.
C3_RowNumberFidelity ==
    Loaded =>
      LET t == ts.table
          src(k) == workbook[SheetAt(t[k].period)].rows
          pos(k) == t[k].row - (EXCEL_HEADER + 1)
      IN /\ \A k \in 1..Len(t) :
               /\ t[k].period \in PeriodNames
               /\ pos(k) \in 1..Len(src(k))
               /\ ~AllNA(src(k)[pos(k)])
               /\ SameData(src(k)[pos(k)], t[k])
         /\ \A k \in 1..Len(t), l \in 1..Len(t) :
               k < l => \/ SheetAt(t[k].period) < SheetAt(t[l].period)
                        \/ t[k].period = t[l].period /\ t[k].row < t[l].row
         /\ Len(t) = Cardinality(
               {si \in UNION {{s} \X (1..Len(workbook[s].rows)) : s \in 1..Len(workbook)} :
                  /\ workbook[si[1]].name \in PeriodNames
                  /\ ~AllNA(workbook[si[1]].rows[si[2]])})

\* A batch with rows stamped 4 and 6 next to each other, the spreadsheet row 5
\* between them being blank.
C3_Witness_BlankBetween ==
    /\ Loaded
    /\ \E k \in 1..(Len(ts.table) - 1) :
          /\ ts.table[k].row = 4
          /\ ts.table[k + 1].row = 6
          /\ ts.table[k].period = ts.table[k + 1].period
          /\ AllNA(workbook[SheetAt(ts.table[k].period)].rows[3])

\* C4: the findings are ordered by period, then by row, then by rule: a
\* finding about an earlier row of the batch never comes after one about a
\* later row.  (The original statement; the code orders by rule first.)
C4_OrderedByRow ==
    Checked => \A k \in 1..Len(Findings), l \in 1..Len(Findings) :
                  k < l => Findings[k].row <= Findings[l].row

RuleIndex(rule) == CHOOSE k \in 1..Len(error_functions) : error_functions[k] = rule

\* C4 as amended: the findings are ordered by rule first (the error functions
\* in catalog order and, within one, its row masks in the order it makes
\* them), and the findings of one mask by period, then row.
C4_OrderedByRuleThenRow ==
    Checked => \A k \in 1..Len(Findings), l \in 1..Len(Findings) :
                  k < l => /\ RuleIndex(Findings[k].rule) <= RuleIndex(Findings[l].rule)
                           /\ Findings[k].error <= Findings[l].error
                           /\ Findings[k].error = Findings[l].error
                                 => Findings[k].row < Findings[l].row

\* A finding of a later rule about an earlier row follows a finding of an
\* earlier rule about a later row.
C4_Witness_LaterRuleEarlierRow ==
    /\ Checked
    /\ \E k \in 1..Len(Findings), l \in 1..Len(Findings) :
          /\ k < l
          /\ Findings[k].row > Findings[l].row
          /\ RuleIndex(Findings[k].rule) < RuleIndex(Findings[l].rule)

\* C5: timesheet_errors never aborts: it returns a collection of findings for
\* every batch, an empty one when no rule matched.  (The statement of the
\* claim; the code raises ValueError from pd.concat when no rule matched.)
C5_NeverAborts ==
    NotNA(errors) =>
      /\ IsNA(Get(errors).exc)
      /\ error_list(ts.table, Get(parsed)) = << >> => Get(errors).findings = << >>

\* The critical "Missing required entry" findings about table row i that name
\* the column.
MissingRequired(i, column) ==
    {k \in 1..Len(Findings) :
        /\ Findings[k].row = i - 1
        /\ Findings[k].level = "CRITICAL"
        /\ Findings[k].message.text = "Missing required entry: " \o column}

----------------------------------------------------------------------------
(* Properties of the rule catalog, checked under SpecRules and SpecSheet *)

\* The minutes since midnight of a parsed time "HH:MM".
MinutesOf(t) == DigitsToInt(SubSeq(t, 1, 2)) * 60 + DigitsToInt(SubSeq(t, 4, 5))

RECURSIVE Pow10(_)
Pow10(n) == IF n = 0 THEN 1 ELSE 10 * Pow10(n - 1)

Abs(x) == IF x < 0 THEN -x ELSE x

\* Whether the declared duration (hours, a decimal) differs by more than 0.1
\* hours from the time between the parsed start and end.
DurationDiffers(p) ==
    LET minutes == MinutesOf(Get(p.end)) - MinutesOf(Get(p.start))
        d == Get(p.duration)
    IN Abs(60 * d.n - minutes * Pow10(d.scale)) > 6 * Pow10(d.scale)

\* The critical findings about table row i that the duration rule made.
DurationMismatch(i) ==
    {k \in 1..Len(Findings) :
        /\ Findings[k].row = i - 1
        /\ Findings[k].level = "CRITICAL"
        /\ Findings[k].rule = "duration_errors"}

\* C11: a row whose start and end times both parse and whose declared
\* duration is present yields exactly one critical "Duration mismatch" finding
\* when the declared duration differs from end - start by more than 0.1 hours,
\* and none otherwise.  (The statement of the claim; the code's duration rule
\* makes no finding and is not in the catalog.)
C11_DurationMismatch ==
    NotNA(errors) =>
      \A i \in duration_errors(ts.table, Get(parsed)) :
         NotNA(Get(parsed)[i].duration)
         => Cardinality(DurationMismatch(i))
              = IF DurationDiffers(Get(parsed)[i]) THEN 1 ELSE 0


\* Whether the calendar date a is later than b.
DateLater(a, b) ==
    \/ a.year > b.year
    \/ a.year = b.year /\ a.month > b.month
    \/ a.year = b.year /\ a.month = b.month /\ a.day > b.day

\* The critical findings about table row i that the date rule made, other
\* than its "Invalid day" finding.
PastPeriodEnd(i) ==
    {k \in 1..Len(Findings) :
        /\ Findings[k].row = i - 1
        /\ Findings[k].level = "CRITICAL"
        /\ Findings[k].rule = "date_errors"
        /\ Findings[k].message.text # "Invalid day for {month} {year}: {day}"}

\* C12: a row whose parsed date is later than the end date of its period (in
\* the reporting year) yields a critical "Date past period end" finding, and a
\* row whose date is on or before the period end yields none.  (The statement
\* of the claim; the code's date rule never reads period_end.)
C12_DatePastPeriodEnd ==
    NotNA(errors) =>
      \A i \in 1..Len(ts.table) :
         LET p == Get(parsed)[i]
         IN (NotNA(p.date) /\ NotNA(p.period_end))
            => (PastPeriodEnd(i) # {} <=> DateLater(Get(p.date), Get(p.period_end)))


\* A raw cell that is absent or holds only whitespace.
Blank(c) == IsNA(c) \/ str_strip(Get(c)) = << >>

\* The critical "entry not understood" findings about table row i that name
\* the column.
NotUnderstood(i, column) ==
    {k \in 1..Len(Findings) :
        /\ Findings[k].row = i - 1
        /\ Findings[k].level = "CRITICAL"
        /\ Findings[k].message.text
              = COLUMN_LONG_NAMES[column] \o " entry not understood: {" \o column \o "}"}

\* C13: blank and unparseable are never conflated: a field yields the critical
\* "entry not understood" finding exactly when its raw value is not blank
\* (neither absent nor whitespace-only) and its parsed value is absent.  (The
\* statement of the claim; the code takes a whitespace-only cell for a value.)
C13_BlankIsNotInvalid ==
    Checked =>
      \A i \in 1..Len(ts.table), c \in 1..Len(COLUMNS) :
         NotUnderstood(i, COLUMNS[c]) # {}
           <=> (~Blank(ts.table[i][COLUMNS[c]]) /\ IsNA(Get(parsed)[i][COLUMNS[c]]))


\* The warning findings about table row i that name the column as one that
\* should be blank.
ForbiddenPresent(i, column) ==
    {k \in 1..Len(Findings) :
        /\ Findings[k].row = i - 1
        /\ Findings[k].level = "WARNING"
        /\ Findings[k].message.text
              = COLUMN_LONG_NAMES[column] \o " should be blank instead of: {" \o column \o "}"}

\* The findings about table row i that the required-entry and forbidden-entry
\* rules made.
RoleFindings(i) ==
    {k \in 1..Len(Findings) :
        /\ Findings[k].row = i - 1
        /\ Findings[k].rule \in {"required_entry_errors", "forbidden_entry_errors"}}

\* Whether the raw position cell names role p of the role table, in any
\* letter case.
Recognized(c, p) == NotNA(c) /\ str_lower(Get(c)) = POSITIONS[p].name

\* C14: a row whose position is a recognized role yields exactly one warning
\* finding for every column the role forbids and the row fills in; a row whose
\* position is blank or not a role yields no required-entry and no
\* forbidden-entry finding.
C14_ForbiddenEntries ==
    NotNA(errors) =>
      \A i \in 1..Len(ts.table) :
         /\ \A p \in 1..Len(POSITIONS) :
               Recognized(ts.table[i].position, p)
               => \A c \in 1..Len(POSITIONS[p].forbidden) :
                     ~Blank(ts.table[i][POSITIONS[p].forbidden[c]])
                     => Cardinality(ForbiddenPresent(i, POSITIONS[p].forbidden[c])) = 1
         /\ (\A p \in 1..Len(POSITIONS) : ~Recognized(ts.table[i].position, p))
               => RoleFindings(i) = {}

\* A row of position "TUTOR" with notes, under a role table that forbids
\* tutors' notes, has its one warning.
C14_Witness_UpperCaseTutorNotes ==
    /\ NotNA(errors)
    /\ \E i \in 1..Len(ts.table), p \in 1..Len(POSITIONS) :
          /\ ts.table[i].position = Val(<<"T", "U", "T", "O", "R">>)
          /\ Recognized(ts.table[i].position, p)
          /\ "notes" \in Range(POSITIONS[p].forbidden)
          /\ ~Blank(ts.table[i].notes)
          /\ Cardinality(ForbiddenPresent(i, "notes")) = 1


\* The findings about table row i.
FindingsOf(i) == {k \in 1..Len(Findings) : Findings[k].row = i - 1}

\* Whether table row i, its position aside, violates no rule: every other cell
\* that is filled in was understood, and its day exists in its month.
OtherwiseClean(i) ==
    LET p == Get(parsed)[i]
    IN /\ \A c \in 1..Len(COLUMNS) :
             COLUMNS[c] # "position"
             => (IsNA(ts.table[i][COLUMNS[c]]) \/ NotNA(p[COLUMNS[c]]))
       /\ (NotNA(p.year) /\ NotNA(p.month) /\ NotNA(p.day)) => NotNA(p.date)

\* C15: a row whose raw position is present but is no configured role (in any
\* letter case), and which violates no other rule, yields exactly one finding,
\* the critical "Invalid position" finding.  (The statement of the claim; the
\* code reports the position a second time as an entry not understood.)
C15_UnrecognizedPositionOnce ==
    NotNA(errors) =>
      \A i \in 1..Len(ts.table) :
         (/\ ~Blank(ts.table[i].position)
          /\ \A p \in 1..Len(POSITIONS) : ~Recognized(ts.table[i].position, p)
          /\ OtherwiseClean(i))
         => /\ Cardinality(FindingsOf(i)) = 1
            /\ \A k \in FindingsOf(i) :
                  /\ Findings[k].level = "CRITICAL"
                  /\ Findings[k].message.text = "Invalid position: {position}"

====
